---- MODULE Spec2Model ----
(***************************************************************************)
(* Verification model of the two decision engines of My-Quant-Strates:     *)
(*   - MACDKDJStrategy   (src/macd_kdj_atr/strategy.py)                    *)
(*   - StockSelectStrategy (src/growth_trend_resonance/strategy.py)        *)
(* Real numbers are modelled by scaled integers; the undefined float value *)
(* is the model value NaN, with the comparison semantics of IEEE floats    *)
(* (every ordered comparison with NaN is false).                           *)
(***************************************************************************)
EXTENDS Integers, Sequences, FiniteSets, TLC

VARIABLES
    \* ---- MACDKDJStrategy and its broker ----
    order,          \* self.order: the handle kept by the strategy
    buy_count,      \* self.buy_count
    last_buy_price, \* self.last_buy_price
    position,       \* self.position.size, owned by the broker
    brokerOrder,    \* the order the broker holds for this strategy
    bar,            \* indicator values of the bar next() was last called on
    last,           \* what the last step did (history of the call)
    aborted,        \* an exception left next() and ended the run
    \* ---- StockSelectStrategy ----
    selnum_final,   \* self.p.selnum_final
    datas,          \* self.datas: the factor values of each data feed at the current bar
    dt,             \* date of the bar next() was last called on
    last_rebalance, \* self.last_rebalance
    pool,           \* rebalance(): top_third, base, eligible, whether the fallback
                    \* fired, and final (the target portfolio), as last computed
    emitted,        \* target weights sent by the last call of next(), one per data feed
    selLast,        \* what the last call of next() did
    selAborted,     \* an exception left rebalance() and ended the run
    rebalance_runs, \* how many times next() has called rebalance()
    \* ---- norm, the helper of rebalance(), called on its own ----
    norm_arr,       \* arr: the list of factor values passed to norm
    norm_ret        \* what the call returned (or that it raised)

macdVars == <<order, buy_count, last_buy_price, position, brokerOrder, bar, last, aborted>>

selVars ==
    <<selnum_final, datas, dt, last_rebalance, pool, emitted, selLast, selAborted,
      rebalance_runs>>

normVars == <<norm_arr, norm_ret>>

vars == <<macdVars, selVars, normVars>>

\* ------------------------------------------------------------------------
\* Input domains of the MACD-KDJ-ATR strategy
\* ------------------------------------------------------------------------
\* (%K, %D) pairs delivered by the stochastic oscillator
KDVals == {<<20, 50>>, <<50, 20>>, <<80, 80>>}
\* (macd, signal) pairs
MACDVals == {<<-1, 1>>, <<1, 1>>}
RSIVals == {20, 80}
CloseVals == {100, 300}
SMA10Vals == {200}
ATRVals == {0, 50, 200}
VolVals == {3}
AvgVolVals == {2}
\* cerebro.broker.setcash(1000000.0)
StartCash == 1000000

\* My_KDJ: J = 3*K - 2*D
KDJ_j(k, d) == 3 * k - 2 * d

\* My_MACD: histogram = macd - signal
MACD_histogram(macd, signal) == macd - signal

\* The bars that can follow bar b: the [-1] values of the indicators are the
\* [0] values of the bar before.
NextBars(b) ==
    { [k |-> kd[1], d |-> kd[2], k_pre |-> b.k, d_pre |-> b.d,
       macd |-> ms[1], signal |-> ms[2], rsi |-> r, close |-> c, sma10 |-> s,
       ATR |-> a, vol |-> v, avg_vol |-> av, value |-> StartCash] :
         kd \in KDVals, ms \in MACDVals, r \in RSIVals, c \in CloseVals,
         s \in SMA10Vals, a \in ATRVals, v \in VolVals, av \in AvgVolVals }

FirstBars ==
    { [k |-> kd[1], d |-> kd[2], k_pre |-> kp[1], d_pre |-> kp[2],
       macd |-> ms[1], signal |-> ms[2], rsi |-> r, close |-> c, sma10 |-> s,
       ATR |-> a, vol |-> v, avg_vol |-> av, value |-> StartCash] :
         kd \in KDVals, kp \in KDVals, ms \in MACDVals, r \in RSIVals,
         c \in CloseVals, s \in SMA10Vals, a \in ATRVals, v \in VolVals,
         av \in AvgVolVals }

\* ------------------------------------------------------------------------
\* Handles and broker orders
\* ------------------------------------------------------------------------
NoOrder == "None"           \* self.order = None
OrderHandle == "Order"      \* a broker order object: truthy whatever its status
LineHandle == "LineObject"  \* what self.close() returns: self.close is the data's close line

NoBrokerOrder == [side |-> "none", size |-> 0, remaining |-> 0, status |-> "None"]

PendingStatus == {"Submitted", "Partial"}
SettledStatus == {"Completed", "Canceled", "Margin"}

Submitted(side, size) ==
    [side |-> side, size |-> size, remaining |-> size, status |-> "Submitted"]

IntMax(a, b) == IF a >= b THEN a ELSE b

\* 0.005 / (300 * 0.1) = 1 / 6000
SizeDivisor == 6000

\* size = int(max((value * 0.005) / (ATR * 300 * 0.1), 1)); only called with ATR > 0
OrderSize(b) == IntMax(b.value \div (SizeDivisor * b.ATR), 1)

\* ------------------------------------------------------------------------
\* MACDKDJStrategy: order helpers.  Each returns the effect of the call on
\* the strategy fields and on the broker: the new handle, counter, reference
\* price, the order handed to the broker, the instruction issued, and
\* whether an exception left the method.
\* ------------------------------------------------------------------------
Keep(branch) ==
    [order |-> order, buy_count |-> buy_count, last_buy_price |-> last_buy_price,
     brokerOrder |-> brokerOrder, instr |-> "none", branch |-> branch, raised |-> FALSE]

\* ZeroDivisionError in the size computation: nothing was assigned yet
Raise(branch) == [Keep(branch) EXCEPT !.raised = TRUE]

\* _enter_long with the counter decremented instead of set
_enter_long_decrement(b) ==
    IF b.ATR = 0 THEN Raise("enter_long")
    ELSE [order |-> OrderHandle, buy_count |-> buy_count - 1, last_buy_price |-> b.close,
          brokerOrder |-> Submitted("buy", OrderSize(b)), instr |-> "buy",
          branch |-> "enter_long", raised |-> FALSE]

_enter_long(b) ==
    IF b.ATR = 0 THEN Raise("enter_long")
    ELSE [order |-> OrderHandle, buy_count |-> 1, last_buy_price |-> b.close,
          brokerOrder |-> Submitted("buy", OrderSize(b)), instr |-> "buy",
          branch |-> "enter_long", raised |-> FALSE]

_enter_short(b) ==
    IF b.ATR = 0 THEN Raise("enter_short")
    ELSE [order |-> OrderHandle, buy_count |-> 1, last_buy_price |-> b.close,
          brokerOrder |-> Submitted("sell", OrderSize(b)), instr |-> "sell",
          branch |-> "enter_short", raised |-> FALSE]

_buy_more(b) ==
    IF b.ATR = 0 THEN Raise("buy_more")
    ELSE [order |-> OrderHandle, buy_count |-> buy_count + 1, last_buy_price |-> b.close,
          brokerOrder |-> Submitted("buy", OrderSize(b)), instr |-> "buy",
          branch |-> "buy_more", raised |-> FALSE]

_sell_more(b) ==
    IF b.ATR = 0 THEN Raise("sell_more")
    ELSE [order |-> OrderHandle, buy_count |-> buy_count + 1, last_buy_price |-> b.close,
          brokerOrder |-> Submitted("sell", OrderSize(b)), instr |-> "sell",
          branch |-> "sell_more", raised |-> FALSE]

\* self.order = self.close(); self.buy_count = 0.  __init__ rebinds self.close to
\* the data's close line (line 38), so the call builds a line object and hands
\* nothing to the broker; the handle slot then holds that object.
_exit_all(branch) ==
    [order |-> LineHandle, buy_count |-> 0, last_buy_price |-> last_buy_price,
     brokerOrder |-> brokerOrder, instr |-> "none", branch |-> branch, raised |-> FALSE]

\* ------------------------------------------------------------------------
\* MACDKDJStrategy.next
\* ------------------------------------------------------------------------
\* the guard left out
OrderPendingGuard_off == FALSE

\* if self.order: return
OrderPendingGuard == order # NoOrder

\* 1. long position: pyramiding, stop loss, take profit  (prices scaled by 10)
LongBranch(b) ==
    IF /\ 10 * b.close > 10 * last_buy_price + 4 * b.ATR
       /\ buy_count < 3
       /\ b.vol > b.avg_vol
    THEN _buy_more(b)
    ELSE IF b.close < last_buy_price - 3 * b.ATR THEN _exit_all("stop_loss")
    ELSE IF b.close > last_buy_price + 2 * b.ATR THEN _exit_all("take_profit")
    ELSE Keep("hold")

\* 2. short position
ShortBranch(b) ==
    LET j == KDJ_j(b.k, b.d)
        j_pre == KDJ_j(b.k_pre, b.d_pre)
        hist_val == MACD_histogram(b.macd, b.signal)
    IN  IF /\ 10 * b.close < 10 * last_buy_price - 5 * b.ATR
           /\ buy_count < 3
        THEN _sell_more(b)
        ELSE IF b.close > last_buy_price + 3 * b.ATR THEN _exit_all("short_stop")
        ELSE IF /\ hist_val > 0
                /\ j_pre < b.k_pre /\ b.k_pre < j
                /\ j_pre < b.d_pre /\ b.d_pre < j
             THEN _exit_all("signal_exit")
        ELSE Keep("hold")

\* 3. flat: entry signals
FlatBranch(b) ==
    LET j == KDJ_j(b.k, b.d)
        j_pre == KDJ_j(b.k_pre, b.d_pre)
        hist_val == MACD_histogram(b.macd, b.signal)
    IN  IF /\ hist_val < 0
           /\ j_pre < b.k_pre /\ b.k_pre < j
           /\ j_pre < b.d_pre /\ b.d_pre < j
           /\ b.rsi < 70
        THEN _enter_long(b)
        ELSE IF /\ b.macd > 0 /\ b.signal > 0
                /\ j_pre > b.k_pre /\ b.k_pre > j
                /\ j_pre > b.d_pre /\ b.d_pre > j
                /\ b.close < b.sma10
                /\ b.rsi > 30
             THEN _enter_short(b)
        ELSE Keep("hold")

NextEffect(b) ==
    IF OrderPendingGuard THEN Keep("skip")
    ELSE IF position > 0 THEN LongBranch(b)
    ELSE IF position < 0 THEN ShortBranch(b)
    ELSE FlatBranch(b)

\* One bar: the harness delivers the bar and calls next()
MACDKDJStrategy_next ==
    /\ ~aborted
    /\ \E b \in NextBars(bar) :
         LET e == NextEffect(b) IN
           /\ bar' = b
           /\ order' = e.order
           /\ buy_count' = e.buy_count
           /\ last_buy_price' = e.last_buy_price
           /\ brokerOrder' = e.brokerOrder
           /\ aborted' = e.raised
           /\ last' = [op |-> "next", evaluated |-> (e.branch # "skip"),
                       branch |-> e.branch, instr |-> e.instr]
    /\ UNCHANGED position
    /\ UNCHANGED selVars
    /\ UNCHANGED normVars

\* ------------------------------------------------------------------------
\* The harness (cerebro and its broker) settles the outstanding order: a
\* partial or a full fill moves the position, a cancellation or a margin
\* rejection leaves it.  MACDKDJStrategy defines no notify_order, so the
\* report changes no field of the strategy: self.order keeps the handle.
\* ------------------------------------------------------------------------
Signed(o, q) == IF o.side = "buy" THEN q ELSE 0 - q

SettleOutcomes(o) ==
    { [order |-> [o EXCEPT !.remaining = o.remaining - q, !.status = "Partial"],
       delta |-> Signed(o, q)] : q \in 1..(o.remaining - 1) }
    \cup { [order |-> [o EXCEPT !.remaining = 0, !.status = "Completed"],
            delta |-> Signed(o, o.remaining)] }
    \cup { [order |-> [o EXCEPT !.status = s], delta |-> 0] : s \in {"Canceled", "Margin"} }

Settle ==
    /\ ~aborted
    /\ brokerOrder.status \in PendingStatus
    /\ \E r \in SettleOutcomes(brokerOrder) :
         /\ brokerOrder' = r.order
         /\ position' = position + r.delta
    /\ last' = [op |-> "settle", evaluated |-> FALSE, branch |-> "none", instr |-> "none"]
    /\ UNCHANGED <<order, buy_count, last_buy_price, bar, aborted>>
    /\ UNCHANGED selVars
    /\ UNCHANGED normVars

\* ========================================================================
\* StockSelectStrategy (src/growth_trend_resonance/strategy.py)
\* ========================================================================
\* Factor values are scaled integers: ttm, npap and roe in hundredths, acc in
\* tenths, the other factors in units.  An instrument is named by its index
\* in self.datas (names are unique).

\* float('nan')
NaN == -999999

\* Ordered comparisons of floats: false as soon as one side is NaN
FLt(x, y) == x # NaN /\ y # NaN /\ x < y
FLe(x, y) == x # NaN /\ y # NaN /\ x <= y
FGt(x, y) == x # NaN /\ y # NaN /\ x > y

Reverse(s) == [i \in 1..Len(s) |-> s[Len(s) + 1 - i]]

Names(pairs) == [i \in 1..Len(pairs) |-> pairs[i][1]]

Take(s, n) == SubSeq(s, 1, n)

\* ------------------------------------------------------------------------
\* sorted(..., key=lambda x: x[1], reverse=...) and list.sort of CPython on a
\* list of (name, key) pairs shorter than 64: the list is reversed when
\* reverse is set, the leading run is counted (and reversed when strictly
\* descending), the rest is inserted by binary insertion, and the result is
\* reversed again.  Keys compare by the float "<".
\* ------------------------------------------------------------------------
ISLT(a, b) == FLt(a[2], b[2])

RECURSIVE CountRun(_, _, _)
CountRun(s, i, desc) ==
    IF i > Len(s) THEN Len(s)
    ELSE IF ISLT(s[i], s[i - 1]) = desc THEN CountRun(s, i + 1, desc)
    ELSE i - 1

RECURSIVE BinarySearch(_, _, _, _)
BinarySearch(s, pivot, l, r) ==
    LET p == l + ((r - l) \div 2)
        l2 == IF ISLT(pivot, s[p]) THEN l ELSE p + 1
        r2 == IF ISLT(pivot, s[p]) THEN p ELSE r
    IN  IF l2 < r2 THEN BinarySearch(s, pivot, l2, r2) ELSE l2

RECURSIVE BinarySort(_, _)
BinarySort(s, start) ==
    IF start > Len(s) THEN s
    ELSE LET l == BinarySearch(s, s[start], 1, start)
             moved == SubSeq(s, 1, l - 1) \o <<s[start]>> \o SubSeq(s, l, start - 1)
                      \o SubSeq(s, start + 1, Len(s))
         IN  BinarySort(moved, start + 1)

\* the leading run of s is s[1..n]; it is reversed when descending, then the
\* elements after it are inserted
SortFromRun(s, desc, n) ==
    BinarySort(IF desc THEN Reverse(SubSeq(s, 1, n)) \o SubSeq(s, n + 1, Len(s)) ELSE s,
               n + 1)

ForwardSort(s) ==
    SortFromRun(s, ISLT(s[2], s[1]), CountRun(s, 3, ISLT(s[2], s[1])))

PySort(pairs, reverse) ==
    IF Len(pairs) < 2 THEN pairs
    ELSE IF reverse THEN Reverse(ForwardSort(Reverse(pairs)))
    ELSE ForwardSort(pairs)

\* ------------------------------------------------------------------------
\* Factors of one data feed d at the current bar
\* ------------------------------------------------------------------------
\* self.ttm = net_profit_after / net_profit_after(-1) - 1
Ttm(d) == d.ttm

\* self.npap = net_profit_after / net_profit_after(-1): the same ratio, not reduced by 1
Npap(d) == IF d.ttm = NaN THEN NaN ELSE d.ttm + 100

\* SolvencyAbility.next: (cash - st_debt) / net_assets, NaN when net_assets = 0
\* (the model draws net_assets from {0, 1}, so the quotient is exact)
SolvencyAbility(d) == IF d.net_assets # 0 THEN d.cash_net \div d.net_assets ELSE NaN

\* d.recent_issuance[0] or d.is_ST[0]: a float is true unless it is 0
Truthy(x) == x # 0

\* d.high[0] == d.low[0] or d.volume[0] == 0
Halted(d) == d.high = d.low \/ d.volume = 0

\* params
sel_TTM == 30
sel_ACC == 50
sel_NPAP == 50
sel_Solvency == -100
sel_ROE == 1
sel_daily_value == 90
sel_analyst_rev == 20
sel_analyst_growth == 20
\* reserve = 0.05, in hundredths
reserve == 5

\* thresholds of the hard filters: NPAP > 0.5, solvency > -1, ROE > 0.01
NpapMin == 50
SolvencyMin == -1
RoeMin == 1

\* ------------------------------------------------------------------------
\* rebalance(), stage by stage.  ds is self.datas at the current bar.
\* ------------------------------------------------------------------------
\* self.acc, self.roe, self.vol, self.mtm, self.rev, self.gro at the current bar
Acc(d) == d.acc
Roe(d) == d.roe
Vol(d) == d.vol
Mtm(d) == d.mtm
Rev(d) == d.rev
Gro(d) == d.gro

\* self.<f>[n][0] for the data feed d of name n
Factor(d, f) ==
    CASE f = "ttm" -> Ttm(d)
      [] f = "acc" -> Acc(d)
      [] f = "npap" -> Npap(d)
      [] f = "solv" -> SolvencyAbility(d)
      [] f = "roe" -> Roe(d)
      [] f = "vol" -> Vol(d)
      [] f = "mtm" -> Mtm(d)
      [] f = "rev" -> Rev(d)
      [] f = "gro" -> Gro(d)

\* [(n, self.<f>[n][0]) for n in ns]
Pairs(ds, ns, f) == [i \in 1..Len(ns) |-> <<ns[i], Factor(ds[ns[i]], f)>>]

Universe(ds) == [i \in 1..Len(ds) |-> i]

\* ttm_vals sorted descending; top_third = first len(universe)//3 names
TopThird(ds) ==
    Take(Names(PySort(Pairs(ds, Universe(ds), "ttm"), TRUE)), Len(ds) \div 3)

PositiveAcc(p) == FGt(p[2], 0)

\* acc_vals: the top third with acc > 0, sorted descending; base = first half
FirstHalf(acc_vals) == Take(Names(acc_vals), Len(acc_vals) \div 2)

BasePool(ds, top_third) ==
    FirstHalf(PySort(SelectSeq(Pairs(ds, top_third, "acc"), PositiveAcc), TRUE))

HasNaN(pairs) == \E i \in 1..Len(pairs) : pairs[i][2] = NaN

\* interpolation between the order statistics of the sorted values v around
\* 0.9 * (n - 1): lo is the lower index (from 0), rem the tenths above it
Interpolate(v, lo, rem) ==
    IF rem = 0 THEN 10 * v[lo + 1][2]
    ELSE 10 * v[lo + 1][2] + rem * (v[lo + 2][2] - v[lo + 1][2])

\* 10 * np.percentile(raw_vols, 90) for a non-empty raw_vols (linear
\* interpolation); NaN as soon as one value is NaN.
Percentile90x10(raw) ==
    IF HasNaN(raw) THEN NaN
    ELSE Interpolate(PySort(raw, FALSE), (9 * (Len(raw) - 1)) \div 10,
                     (9 * (Len(raw) - 1)) % 10)

PassesHardFilters_flags_ignored(d, thresh10) ==
    /\ ~(FLe(Npap(d), NpapMin) \/ FLe(SolvencyAbility(d), SolvencyMin) \/ FLe(d.roe, RoeMin))
    /\ ~(d.vol # NaN /\ thresh10 # NaN /\ 10 * d.vol < thresh10)

\* the two "continue" tests of the filter loop; thresh10 is 10 * vol_thresh
PassesHardFilters(d, thresh10) ==
    /\ ~(FLe(Npap(d), NpapMin) \/ FLe(SolvencyAbility(d), SolvencyMin) \/ FLe(d.roe, RoeMin))
    /\ ~(\/ (d.vol # NaN /\ thresh10 # NaN /\ 10 * d.vol < thresh10)
         \/ Truthy(d.recent_issuance)
         \/ Truthy(d.is_ST))

RECURSIVE FilterLoop(_, _, _, _)
FilterLoop(ds, base, i, thresh10) ==
    IF i > Len(base) THEN <<>>
    ELSE (IF PassesHardFilters(ds[base[i]], thresh10) THEN <<base[i]>> ELSE <<>>)
         \o FilterLoop(ds, base, i + 1, thresh10)

\* if len(eligible) < self.p.selnum_final: eligible = base
FallbackFires(filtered, sn) == Len(filtered) < sn

\* norm(arr): [raised, den, nums]; element i is nums[i] / den, NaN when
\* nums[i] = NaN.  min() of an empty list raises ValueError.
RECURSIVE SeqMin(_)
SeqMin(s) == IF Len(s) = 1 THEN s[1]
             ELSE LET m == SeqMin(Tail(s)) IN IF m < s[1] THEN m ELSE s[1]

RECURSIVE SeqMax(_)
SeqMax(s) == IF Len(s) = 1 THEN s[1]
             ELSE LET m == SeqMax(Tail(s)) IN IF m > s[1] THEN m ELSE s[1]

NotNaN(x) == x # NaN

\* the list comprehension of norm, given the minimum and maximum of the
\* defined values
Scale(arr, mn, mx) ==
    IF mn = mx
    THEN [raised |-> FALSE, den |-> 1, nums |-> [i \in 1..Len(arr) |-> 50]]
    ELSE [raised |-> FALSE, den |-> mx - mn,
          nums |-> [i \in 1..Len(arr) |->
                      IF arr[i] = NaN THEN NaN ELSE (arr[i] - mn) * 100]]

norm(arr) ==
    IF Len(SelectSeq(arr, NotNaN)) = 0 THEN [raised |-> TRUE, den |-> 1, nums |-> <<>>]
    ELSE Scale(arr, SeqMin(SelectSeq(arr, NotNaN)), SeqMax(SelectSeq(arr, NotNaN)))

\* [self.<f>[n][0] for n in ns]
Values(ds, ns, f) == [i \in 1..Len(ns) |-> Factor(ds[ns[i]], f)]

\* the nine normalised factor lists, in the order of the score expression
Normalised(ds, el) ==
    << norm(Values(ds, el, "ttm")), norm(Values(ds, el, "acc")), norm(Values(ds, el, "npap")),
       norm(Values(ds, el, "solv")), norm(Values(ds, el, "roe")),
       norm(Values(ds, el, "vol")), norm(Values(ds, el, "mtm")),
       norm(Values(ds, el, "rev")), norm(Values(ds, el, "gro")) >>

\* weights of the score expression, in hundredths
Weights ==
    << sel_TTM, sel_ACC, sel_NPAP, 100 - sel_Solvency, sel_ROE,
       sel_daily_value, 100, sel_analyst_rev, sel_analyst_growth >>

RECURSIVE Gcd(_, _)
Gcd(a, b) == IF b = 0 THEN a ELSE Gcd(b, a % b)

Lcm(a, b) == (a \div Gcd(a, b)) * b

\* the least common denominator of the first k normalised lists
RECURSIVE CommonDen(_, _)
CommonDen(ns, k) == IF k = 0 THEN 1 ELSE Lcm(ns[k].den, CommonDen(ns, k - 1))

RECURSIVE WeightedSum(_, _, _, _)
WeightedSum(ns, i, k, D) ==
    IF k = 0 THEN 0
    ELSE Weights[k] * ns[k].nums[i] * (D \div ns[k].den) + WeightedSum(ns, i, k - 1, D)

\* score of the i-th eligible instrument, times 100 * D with D the common
\* denominator of the nine normalised lists (the same for every instrument);
\* NaN as soon as one normalised factor is NaN
Score(ns, i) ==
    IF \E k \in 1..Len(ns) : ns[k].nums[i] = NaN THEN NaN
    ELSE WeightedSum(ns, i, Len(ns), CommonDen(ns, Len(ns)))

RECURSIVE FinalSelect_uncapped(_, _, _, _, _)
FinalSelect_uncapped(ds, comp, i, final, sn) ==
    IF i <= Len(comp)
    THEN FinalSelect_uncapped(ds, comp, i + 1,
                              IF ~Halted(ds[comp[i][1]]) THEN Append(final, comp[i][1])
                              ELSE final,
                              sn)
    ELSE final

\* the walk over comp: collect until selnum_final names, skipping halted ones
RECURSIVE FinalSelect(_, _, _, _, _)
FinalSelect(ds, comp, i, final, sn) ==
    IF Len(final) < sn /\ i <= Len(comp)
    THEN FinalSelect(ds, comp, i + 1,
                     IF ~Halted(ds[comp[i][1]]) THEN Append(final, comp[i][1]) ELSE final,
                     sn)
    ELSE final

InSeq(x, s) == \E i \in 1..Len(s) : s[i] = x

\* self.target_pct = (1.0 - reserve) / selnum_final, as <<numerator, denominator>>
TargetPct(sn) == <<100 - reserve, 100 * sn>>

\* order_target_percent(d, target=...) for every d of self.datas
Orders(ds, final, sn) ==
    [i \in 1..Len(ds) |-> IF InSeq(i, final) THEN TargetPct(sn) ELSE <<0, 1>>]

Aborted(top_third, base, eligible, fallback) ==
    [raised |-> TRUE, top_third |-> top_third, base |-> base, eligible |-> eligible,
     fallback |-> fallback, final |-> <<>>, emitted |-> <<>>]

\* orders: the result of a rebalance that ran to its end
Completed(ds, sn, top_third, base, eligible, fallback, final) ==
    [raised |-> FALSE, top_third |-> top_third, base |-> base, eligible |-> eligible,
     fallback |-> fallback, final |-> final, emitted |-> Orders(ds, final, sn)]

\* score, sort and final selection, given the normalised factor lists ns
ScoreAndSelect(ds, sn, top_third, base, eligible, fallback, ns) ==
    IF \E k \in 1..Len(ns) : ns[k].raised
    THEN Aborted(top_third, base, eligible, fallback)
    ELSE Completed(ds, sn, top_third, base, eligible, fallback,
                   FinalSelect(ds,
                               PySort([i \in 1..Len(eligible) |->
                                         <<eligible[i], Score(ns, i)>>], TRUE),
                               1, <<>>, sn))

\* fallback and normalisation, given the output of the filter loop
FallbackAndNormalise(ds, sn, top_third, base, filtered) ==
    IF FallbackFires(filtered, sn)
    THEN ScoreAndSelect(ds, sn, top_third, base, base, TRUE, Normalised(ds, base))
    ELSE ScoreAndSelect(ds, sn, top_third, base, filtered, FALSE, Normalised(ds, filtered))

\* hard filters on the base pool.  np.percentile of an empty list raises or
\* returns nan; with base empty, norm([]) raises in any case.
FilterBase(ds, sn, top_third, base) ==
    IF Len(base) = 0 THEN Aborted(top_third, base, <<>>, FALSE)
    ELSE FallbackAndNormalise(ds, sn, top_third, base,
                              FilterLoop(ds, base, 1, Percentile90x10(Pairs(ds, base, "vol"))))

StageBase(ds, sn, top_third) == FilterBase(ds, sn, top_third, BasePool(ds, top_third))

\* rebalance() on self.datas = ds with selnum_final = sn
rebalance(ds, sn) == StageBase(ds, sn, TopThird(ds))

\* ------------------------------------------------------------------------
\* Inputs of the selection engine: the universe is a few instruments drawn
\* from HeadProfiles followed by identical fillers.
\* ------------------------------------------------------------------------
MaxHead == 2
MaxFill == 10
MaxSel == 2

Good ==
    [ttm |-> 30, acc |-> 15, cash_net |-> 0, net_assets |-> 1, roe |-> 5, vol |-> 2,
     mtm |-> 1, rev |-> 1, gro |-> 1, recent_issuance |-> 0, is_ST |-> 0,
     high |-> 2, low |-> 1, volume |-> 1]

HeadProfiles ==
    { Good,
      [Good EXCEPT !.ttm = 10, !.acc = -2],
      [Good EXCEPT !.acc = NaN],
      [Good EXCEPT !.acc = 8],
      [Good EXCEPT !.ttm = NaN],
      [Good EXCEPT !.ttm = -60],
      [Good EXCEPT !.net_assets = 0],
      [Good EXCEPT !.cash_net = -2],
      [Good EXCEPT !.roe = NaN],
      [Good EXCEPT !.roe = 0],
      [Good EXCEPT !.vol = NaN],
      [Good EXCEPT !.vol = 1],
      [Good EXCEPT !.recent_issuance = 1, !.mtm = 2],
      [Good EXCEPT !.is_ST = 1, !.mtm = 2],
      [Good EXCEPT !.high = 1],
      [Good EXCEPT !.volume = 0] }

FillerProfiles ==
    { [Good EXCEPT !.ttm = -5, !.acc = 8],
      [Good EXCEPT !.ttm = -70, !.acc = 8] }

\* the universe made of the given heads followed by f fillers
Universe_of(heads, f, filler) == heads \o [i \in 1..f |-> filler]

\* simulation dates, as days of the year 2020: Jan 31, Feb 1, May 1
Dates == {31, 32, 122}

\* self.last_rebalance = None
NoDate == 0

MonthLengths == <<31, 29, 31, 30, 31, 30, 31, 31, 30, 31, 30, 31>>

RECURSIVE MonthDayFrom(_, _)
MonthDayFrom(n, m) ==
    IF n <= MonthLengths[m] THEN <<m, n>> ELSE MonthDayFrom(n - MonthLengths[m], m + 1)

\* (dt - timedelta(days=1)).timetuple()[1:3]
PrevMonthDay(d) == IF d = 1 THEN <<12, 31>> ELSE MonthDayFrom(d - 1, 1)

target == {<<1, 31>>, <<4, 30>>, <<7, 15>>, <<8, 31>>, <<10, 31>>}

AlreadyRebalanced_off(d) == FALSE

\* if self.last_rebalance == dt: return
AlreadyRebalanced(d) == last_rebalance = d

Locals(r) ==
    [top_third |-> r.top_third, base |-> r.base, eligible |-> r.eligible,
     fallback |-> r.fallback, final |-> r.final]

\* self.rebalance(); self.last_rebalance = dt -- the assignment is skipped when
\* rebalance() raises, and no order was sent
AfterRebalance(d, r) ==
    IF r.raised
    THEN [branch |-> "abort", raised |-> TRUE, last_rebalance |-> last_rebalance,
          pool |-> [Locals(r) EXCEPT !.final = pool.final], emitted |-> <<>>]
    ELSE [branch |-> "rebalance", raised |-> FALSE, last_rebalance |-> d,
          pool |-> Locals(r), emitted |-> r.emitted]

\* the effect of next() on the date d
SelectEffect(d) ==
    IF AlreadyRebalanced(d)
    THEN [branch |-> "same_date", raised |-> FALSE, last_rebalance |-> last_rebalance,
          pool |-> pool, emitted |-> <<>>]
    ELSE IF PrevMonthDay(d) \in target
    THEN AfterRebalance(d, rebalance(datas, selnum_final))
    ELSE [branch |-> "no_trigger", raised |-> FALSE, last_rebalance |-> last_rebalance,
          pool |-> pool, emitted |-> <<>>]

\* The harness delivers a bar of the same or of a later date and calls next()
StockSelectStrategy_next ==
    /\ ~selAborted
    /\ \E d \in Dates :
         /\ d >= dt
         /\ LET e == SelectEffect(d) IN
              /\ dt' = d
              /\ last_rebalance' = e.last_rebalance
              /\ pool' = e.pool
              /\ emitted' = e.emitted
              /\ selAborted' = e.raised
              /\ selLast' = [op |-> "next", branch |-> e.branch]
              /\ rebalance_runs' =
                    IF e.branch \in {"rebalance", "abort"} THEN rebalance_runs + 1
                    ELSE rebalance_runs
    /\ UNCHANGED <<selnum_final, datas>>
    /\ UNCHANGED macdVars
    /\ UNCHANGED normVars

MACDStart ==
    /\ order = NoOrder
    /\ buy_count = 0
    /\ last_buy_price = 0
    /\ position = 0
    /\ brokerOrder = NoBrokerOrder
    /\ last = [op |-> "init", evaluated |-> FALSE, branch |-> "none", instr |-> "none"]
    /\ aborted = FALSE

\* StockSelectStrategy.__init__
SelectStart ==
    /\ dt = NoDate
    /\ last_rebalance = NoDate
    /\ pool = [top_third |-> <<>>, base |-> <<>>, eligible |-> <<>>,
               fallback |-> FALSE, final |-> <<>>]
    /\ emitted = <<>>
    /\ selLast = [op |-> "init", branch |-> "none"]
    /\ selAborted = FALSE
    /\ rebalance_runs = 0

\* norm has not been called
NotCalled == [raised |-> FALSE, den |-> 0, nums |-> <<>>]

NormStart ==
    /\ norm_arr = <<>>
    /\ norm_ret = NotCalled

\* MACDKDJStrategy under cerebro; the selection engine is not running
Init ==
    /\ MACDStart
    /\ bar \in FirstBars
    /\ SelectStart
    /\ selnum_final = 1
    /\ datas = <<Good>>
    /\ NormStart

Next ==
    \/ MACDKDJStrategy_next
    \/ Settle

Spec == Init /\ [][Next]_vars

\* StockSelectStrategy under cerebro; the MACD strategy is not running
InitSelect ==
    /\ MACDStart
    /\ bar = CHOOSE b \in FirstBars : TRUE
    /\ SelectStart
    /\ selnum_final \in 1..MaxSel
    /\ \E h \in 0..MaxHead, f \in 0..MaxFill :
         /\ h + f >= 1
         /\ \E heads \in [1..h -> HeadProfiles], filler \in FillerProfiles :
              datas = Universe_of(heads, f, filler)
    /\ NormStart

NextSelect == StockSelectStrategy_next

SpecSelect == InitSelect /\ [][NextSelect]_vars

\* ------------------------------------------------------------------------
\* norm on its own: every list of up to MaxArr factor values
\* ------------------------------------------------------------------------
MaxArr == 3

\* factor values in hundredths, and the undefined value
NormVals == {NaN, 0, 1, 2}

InitNorm ==
    /\ MACDStart
    /\ bar = CHOOSE b \in FirstBars : TRUE
    /\ SelectStart
    /\ selnum_final = 1
    /\ datas = <<Good>>
    /\ \E n \in 0..MaxArr : norm_arr \in [1..n -> NormVals]
    /\ norm_ret = NotCalled

\* ttm_n = norm([...]) and the eight calls after it
norm_call ==
    /\ norm_ret = NotCalled
    /\ norm_ret' = norm(norm_arr)
    /\ UNCHANGED <<norm_arr, macdVars, selVars>>

NextNorm == norm_call

SpecNorm == InitNorm /\ [][NextNorm]_vars

\* ------------------------------------------------------------------------
\* MACDKDJStrategy constructed over a broker that already holds a position in
\* the data.  self.position (lines 89, 102) is the broker's position: it is
\* owned by the broker and shared by whatever trades the data under the same
\* cerebro, while the fields of the strategy are those __init__ sets.
\* ------------------------------------------------------------------------
HeldSizes == {-2, 2}

InitHeld ==
    /\ order = NoOrder
    /\ buy_count = 0
    /\ last_buy_price = 0
    /\ position \in HeldSizes
    /\ brokerOrder = NoBrokerOrder
    /\ last = [op |-> "init", evaluated |-> FALSE, branch |-> "none", instr |-> "none"]
    /\ aborted = FALSE
    /\ bar \in FirstBars
    /\ SelectStart
    /\ selnum_final = 1
    /\ datas = <<Good>>
    /\ NormStart

NextHeld ==
    \/ MACDKDJStrategy_next
    \/ Settle

SpecHeld == InitHeld /\ [][NextHeld]_vars

\* ------------------------------------------------------------------------
\* Properties of MACDKDJStrategy
\* ------------------------------------------------------------------------
ExitBranches == {"stop_loss", "take_profit", "short_stop"}

C2_SettledOrderUnblocks ==
    (last.op = "next" /\ brokerOrder.status \in SettledStatus) => last.evaluated

\* C3: a call of next() on a bar where the issued order is still unconfirmed
\* issues no instruction and changes neither buy_count nor last_buy_price
\* nor the order handle (nor the order the broker holds).
C3_NoInstructionWhilePending ==
    [][(brokerOrder.status \in PendingStatus /\ last'.op = "next")
        => (/\ last'.instr = "none"
            /\ UNCHANGED <<buy_count, last_buy_price, order, brokerOrder>>)]_vars

\* next() was called on a bar with the order still unconfirmed and returned
C3_Witness ==
    /\ last.op = "next"
    /\ last.branch = "skip"
    /\ brokerOrder.status \in PendingStatus
    /\ order = OrderHandle

\* ------------------------------------------------------------------------
\* Properties of StockSelectStrategy
\* ------------------------------------------------------------------------
\* C4: a call of next() on the date a rebalance was already executed on is a
\* no-op: it does not run rebalance() again, emits no target weight and
\* leaves last_rebalance and the target portfolio (with the rest of the
\* rebalance results) unchanged.
C4_SameDateIsNoOp ==
    [][(selLast'.op = "next" /\ last_rebalance # NoDate /\ dt' = last_rebalance)
        => (/\ selLast'.branch = "same_date"
            /\ emitted' = <<>>
            /\ UNCHANGED <<last_rebalance, pool, rebalance_runs>>)]_vars

\* next() was called a second time on the date of an executed rebalance
C4_Witness ==
    /\ selLast.branch = "same_date"
    /\ rebalance_runs = 1
    /\ last_rebalance = dt
    /\ Len(pool.final) >= 1

NoDuplicates(s) == \A i, j \in 1..Len(s) : s[i] = s[j] => i = j

\* C5: the final list of a rebalance has at most selnum_final members and
\* holds no instrument twice.
C5_FinalBoundedNoDuplicates ==
    /\ Len(pool.final) <= selnum_final
    /\ NoDuplicates(pool.final)

\* a rebalance whose eligible set was larger than selnum_final and whose
\* final list was cut at selnum_final
C5_Witness ==
    /\ selLast.branch = "rebalance"
    /\ Len(pool.eligible) > selnum_final
    /\ Len(pool.final) = selnum_final

\* C6: rebalance() never raises: on every rebalance date it completes and
\* emits a target weight for every tracked instrument.
C6_RebalanceNeverAborts ==
    (selLast.op = "next" /\ selLast.branch \in {"rebalance", "abort"})
        => (~selAborted /\ Len(emitted) = Len(datas))

\* C7: when the top third by TTM growth is one instrument and its
\* acceleration is > 0, the base pool is exactly that instrument.
C7_BaseKeepsLeader ==
    (/\ selLast.branch \in {"rebalance", "abort"}
     /\ Len(pool.top_third) = 1
     /\ FGt(Acc(datas[pool.top_third[1]]), 0))
        => pool.base = pool.top_third

RequiredFactorUndefined(d) ==
    Npap(d) = NaN \/ SolvencyAbility(d) = NaN \/ Roe(d) = NaN \/ Vol(d) = NaN

\* C8: on a rebalance where the fallback does not fire, no instrument with
\* an undefined required factor (NPAP, solvency, ROE, 5-bar average value)
\* is in the eligible set or in the final list.
C8_UndefinedFactorExcluded ==
    (selLast.branch = "rebalance" /\ ~pool.fallback)
        => /\ \A i \in 1..Len(pool.eligible) :
                ~RequiredFactorUndefined(datas[pool.eligible[i]])
           /\ \A i \in 1..Len(pool.final) :
                ~RequiredFactorUndefined(datas[pool.final[i]])

AllDefinedEqual(arr) ==
    \A i, j \in 1..Len(arr) : (arr[i] # NaN /\ arr[j] # NaN) => arr[i] = arr[j]

\* C9: for a list with at least one defined value, norm returns, and every
\* element it returns for a defined value lies in [0, 100]; an undefined
\* value is never given a real score; when all defined values are equal,
\* every defined value gets exactly 50.
C9_NormRangeAndNeutral ==
    (norm_ret # NotCalled /\ \E i \in 1..Len(norm_arr) : norm_arr[i] # NaN)
        => /\ ~norm_ret.raised
           /\ Len(norm_ret.nums) = Len(norm_arr)
           /\ \A i \in 1..Len(norm_ret.nums) :
                IF norm_arr[i] = NaN THEN norm_ret.nums[i] = NaN
                ELSE /\ norm_ret.nums[i] # NaN
                     /\ 0 <= norm_ret.nums[i]
                     /\ norm_ret.nums[i] <= 100 * norm_ret.den
                     /\ AllDefinedEqual(norm_arr) => norm_ret.nums[i] = 50 * norm_ret.den

Flagged(d) == Truthy(d.recent_issuance) \/ Truthy(d.is_ST)

\* C10: on a rebalance where the fallback does not fire, no instrument whose
\* recent_issuance or is_ST flag is true is in the final list.
C10_FlaggedExcluded ==
    (selLast.branch = "rebalance" /\ ~pool.fallback)
        => \A i \in 1..Len(pool.final) : ~Flagged(datas[pool.final[i]])

\* a rebalance without fallback whose base pool held a flagged instrument
\* and whose final list is not empty
C10_Witness ==
    /\ selLast.branch = "rebalance"
    /\ ~pool.fallback
    /\ \E i \in 1..Len(pool.base) : Flagged(datas[pool.base[i]])
    /\ Len(pool.final) >= 1

ExitTransitions == ExitBranches \cup {"signal_exit"}

\* the order that closes the whole position p
ClosesAll(o, p) ==
    /\ o.status \in PendingStatus
    /\ o.remaining = (IF p > 0 THEN p ELSE 0 - p)
    /\ o.side = (IF p > 0 THEN "sell" ELSE "buy")

CrossesAboveKD(b) ==
    /\ KDJ_j(b.k_pre, b.d_pre) < b.k_pre
    /\ KDJ_j(b.k_pre, b.d_pre) < b.d_pre
    /\ KDJ_j(b.k, b.d) > b.k
    /\ KDJ_j(b.k, b.d) > b.d

StatedLongSignal(b) ==
    /\ MACD_histogram(b.macd, b.signal) < 0
    /\ b.rsi < 70
    /\ CrossesAboveKD(b)

\* C13: from Flat with no order pending, next() issues a long entry exactly
\* when histogram < 0, RSI < 70 and J crosses above both K and D between the
\* prior and the current bar.
C13_LongEntryIffCross ==
    (last.op = "next" /\ last.evaluated /\ position = 0)
        => ((last.instr = "buy") <=> StatedLongSignal(bar))

====
